---- MODULE Spec2Model ----
(***************************************************************************)
(* Model of the cloud matcher node                                         *)
(* (modular_cloud_matcher/src/modular_cloud_matcher.cpp).                  *)
(*                                                                         *)
(* CloudMatcher::gotCloud is the subscription callback; ros::spin() runs   *)
(* it to completion for one message at a time, so one call is one action.  *)
(* The ICPSequence object `icp` belongs to the point matcher library and   *)
(* is modelled from its documented interface: match (operator()),          *)
(* resetTracking, getTransform, getDeltaTransform and                      *)
(* keyFrameCreatedAtLastCall.                                              *)
(***************************************************************************)
EXTENDS Integers, Sequences, FiniteSets, TLC

\* ------------------------------------------------------------------ bounds
\* number of cloud messages delivered in a behaviour
MaxFrames == 4
\* largest configured startupDropCount
MaxDrop == 2
\* largest number of points of a cloud in FilterSpec
MaxPoints == 2

\* ------------------------------------------------------------------ floats
\* A float is <<kind, value>>: a finite value, a NaN or an infinity.
Fin(v) == <<"fin", v>>
quiet_NaN == <<"nan", 0>>
Infinity == <<"inf", 0>>

isnan(f) == f[1] = "nan"

Coord == {Fin(1), quiet_NaN, Infinity}

\* pcl::PointXYZ
Point(x, y, z) == [x |-> x, y |-> y, z |-> z]
PointXYZ == [x : Coord, y : Coord, z : Coord]

\* ------------------------------------------------------------- transforms
\* A rigid transform (the 4x4 matrix TP): a rotation about z by rot half
\* turns and an integer translation.
Identity == [rot |-> 0, tr |-> <<0, 0, 0>>]

\* R(rot) * v
Rotate(rot, v) == IF rot = 0 THEN v ELSE <<0 - v[1], 0 - v[2], v[3]>>

\* the matrix product a * b
Compose(a, b) ==
    LET w == Rotate(a.rot, b.tr)
    IN  [rot |-> (a.rot + b.rot) % 2,
         tr  |-> <<a.tr[1] + w[1], a.tr[2] + w[2], a.tr[3] + w[3]>>]

\* Eigen quaternion (x, y, z, w) of the rotation block of a transform
Quaternion(T) ==
    IF T.rot = 0 THEN <<Fin(0), Fin(0), Fin(0), Fin(1)>>
                 ELSE <<Fin(0), Fin(0), Fin(1), Fin(0)>>

\* the translation block of a transform
Translation(T) == <<Fin(T.tr[1]), Fin(T.tr[2]), Fin(T.tr[3])>>

\* the incremental motions a converged registration may report
DeltaTransforms ==
    { [rot |-> 1, tr |-> <<1, 0, 0>>],
      [rot |-> 0, tr |-> <<1, 0, 0>>] }

\* ------------------------------------------------------------ cloud filter
\* the test of the two loops: a point is kept when its x is not a NaN
IsGoodPoint(p) == ~isnan(p.x)

\* a count that takes every point of the cloud for good
GoodCount_AllPoints(points) == Len(points)

\* size_t goodCount(0); for (...) if (!isnan(cloud.points[i].x)) ++goodCount;
RECURSIVE GoodCount(_)
GoodCount(points) ==
    IF points = <<>> THEN 0
    ELSE (IF IsGoodPoint(Head(points)) THEN 1 ELSE 0) + GoodCount(Tail(points))

\* one column of dp.features: rows x, y, z and the homogeneous 1
Column(p) == <<p.x, p.y, p.z, Fin(1)>>

\* the fill loop from a given dIndex on: the writes dp.features.coeffRef(.,
\* dIndex) it makes, in order, each with the column index and the column
RECURSIVE FillLoop(_, _)
FillLoop(points, dIndex) ==
    IF points = <<>> THEN <<>>
    ELSE IF IsGoodPoint(Head(points))
         THEN <<[dIndex |-> dIndex, column |-> Column(Head(points))]>>
              \o FillLoop(Tail(points), dIndex + 1)
         ELSE FillLoop(Tail(points), dIndex)

\* the fill loop: the columns written at dIndex = 0, 1, ... in input order
FillFeatures(points) ==
    LET w == FillLoop(points, 0) IN [k \in 1..Len(w) |-> w[k].column]

\* the partial image threshold of goodCount
PartialImageThreshold == 10000

\* if (goodCount < 10000): the diagnostic "Partial image!"
PartialImage(gc) == gc < PartialImageThreshold

\* a partial image test whose return is not commented out
PartialImageReturns_Restored(gc) == PartialImage(gc)

\* the return of the partial image test is commented out (//return;)
PartialImageReturns(gc) == FALSE

\* const double imageRatio = (double)goodCount / (double)cloud.points.size(),
\* kept as <<numerator, denominator>>
ImageRatio(gc, size) == <<gc, size>>

\* --------------------------------------------------------------- messages
fixedFrame == "/world"
sensorFrame == "/openni_rgb_optical_frame"

\* geometry_msgs::PoseWithCovarianceStamped with every field the NaN sentinel
SentinelPose(stamp) ==
    [stamp       |-> stamp,
     position    |-> <<quiet_NaN, quiet_NaN, quiet_NaN>>,
     orientation |-> <<quiet_NaN, quiet_NaN, quiet_NaN, quiet_NaN>>]

\* a delta pose block without its failure branch
DeltaPose_NoSentinel(icpWasSuccess, dTransform, stamp) ==
    [stamp       |-> stamp,
     position    |-> Translation(dTransform),
     orientation |-> Quaternion(dTransform)]

\* the delta pose message of a frame that went through icp
DeltaPose(icpWasSuccess, dTransform, stamp) ==
    IF icpWasSuccess
    THEN [stamp       |-> stamp,
          position    |-> Translation(dTransform),
          orientation |-> Quaternion(dTransform)]
    ELSE SentinelPose(stamp)

\* a broadcast that swaps the parent and the child frame
StampedTransform_Swapped(globalTransform, stamp) ==
    [rotation       |-> Quaternion(globalTransform),
     origin         |-> Translation(globalTransform),
     stamp          |-> stamp,
     frame_id       |-> sensorFrame,
     child_frame_id |-> fixedFrame]

\* tf::StampedTransform(transform, stamp, fixedFrame, sensorFrame)
StampedTransform(globalTransform, stamp) ==
    [rotation       |-> Quaternion(globalTransform),
     origin         |-> Translation(globalTransform),
     stamp          |-> stamp,
     frame_id       |-> fixedFrame,
     child_frame_id |-> sensorFrame]

\* geometry_msgs::PoseStamped pushed on the path; header.stamp is left at
\* its default
PathPose(globalTransform) ==
    [frame_id    |-> sensorFrame,
     stamp       |-> 0,
     position    |-> Translation(globalTransform),
     orientation |-> Quaternion(globalTransform)]

\* ------------------------------------------------------------ ICPSequence
\* the sequence after construction: no key frame, identity transforms
ICPInit ==
    [keyFrameCloud   |-> <<>>,
     transform       |-> Identity,
     deltaTransform  |-> Identity,
     keyFrameCreated |-> FALSE]

\* what a registration against the key frame may report
RegResults ==
    {[ok |-> FALSE, D |-> Identity, kf |-> FALSE]}
    \cup [ok : {TRUE}, D : DeltaTransforms, kf : BOOLEAN]

\* icp(dp): the first cloud becomes the key frame with an identity delta;
\* later clouds either converge (the transform is composed with the delta,
\* and the cloud may become the key frame) or raise ConvergenceError, which
\* leaves the transform and the key frame as they were.
Match(s, dp, res) ==
    IF s.keyFrameCloud = <<>>
    THEN [ok  |-> TRUE,
          icp |-> [s EXCEPT !.keyFrameCloud = dp,
                            !.deltaTransform = Identity,
                            !.keyFrameCreated = TRUE]]
    ELSE IF res.ok
    THEN [ok  |-> TRUE,
          icp |-> [s EXCEPT !.keyFrameCloud = IF res.kf THEN dp ELSE @,
                            !.transform = Compose(@, res.D),
                            !.deltaTransform = res.D,
                            !.keyFrameCreated = res.kf]]
    ELSE [ok  |-> FALSE,
          icp |-> [s EXCEPT !.keyFrameCreated = FALSE]]

\* icp.resetTracking(dp): drop the key frame and adopt dp
ResetTracking(s, dp) == [s EXCEPT !.keyFrameCloud = dp]

getTransform(s) == s.transform
getDeltaTransform(s) == s.deltaTransform
keyFrameCreatedAtLastCall(s) == s.keyFrameCreated

\* ------------------------------------------------------------------ state
VARIABLES
    sendDeltaPoseMessage,  \* const bool, --senddeltapose
    startupDropCount,      \* const unsigned, parameter startupDropCount
    dropCount,             \* unsigned dropCount
    icp,                   \* MSA::ICPSequence icp
    path,                  \* nav_msgs::Path path (its poses)
    nFrames,               \* number of gotCloud calls made so far
    frame,                 \* the cloudMsg of the last call
    outcome,               \* the way the last call returned
    goodCount,             \* goodCount of the last call
    dp,                    \* dp.features of the last call, <<>> when not built
    icpCalls,              \* the calls the last call made on icp, in order
    posePubMsgs,           \* the messages the last call published on posePub
    pathPubMsgs,           \* the messages the last call published on pathPub
    brMsgs,                \* the transforms the last call sent through br
    outcomes,              \* the way each call so far returned, in call order
    diagnostics,           \* the ROS_ERROR and ROS_WARN lines of the last call
    imageRatio,            \* imageRatio of the last call, <<>> when not computed
    fillWrites,            \* the dIndex of each column write of the last call
    deltas,                \* the delta transform of each converged call so far
    queue,                 \* the messages waiting in the subscription queue
    nArrived,              \* number of messages that reached the subscription
    lost                   \* the stamps of the messages the queue discarded

vars == <<sendDeltaPoseMessage, startupDropCount, dropCount, icp, path, nFrames,
          frame, outcome, goodCount, dp, icpCalls, posePubMsgs, pathPubMsgs,
          brMsgs, outcomes, diagnostics, imageRatio, fillWrites,
          deltas, queue, nArrived, lost>>

\* every cloud of at most n points
Clouds(n) == UNION {[1..k -> PointXYZ] : k \in 0..n}

\* the clouds delivered under Spec: no point, an all-NaN point, two
\* different finite points, a NaN point followed by a finite one, and a
\* point whose y alone is a NaN
FrameClouds ==
    { <<>>,
      <<Point(quiet_NaN, quiet_NaN, quiet_NaN)>>,
      <<Point(Fin(1), Fin(1), Fin(1))>>,
      <<Point(Fin(2), Fin(2), Fin(2))>>,
      <<Point(quiet_NaN, quiet_NaN, quiet_NaN), Point(Fin(1), Fin(1), Fin(1))>>,
      <<Point(Fin(1), quiet_NaN, Fin(1))>> }

\* the constructor: dropCount(0), an empty path, a fresh icp
Init ==
    /\ sendDeltaPoseMessage \in BOOLEAN
    /\ startupDropCount \in 0..MaxDrop
    /\ dropCount = 0
    /\ icp = ICPInit
    /\ path = <<>>
    /\ nFrames = 0
    /\ frame = [points |-> <<>>, stamp |-> 0]
    /\ outcome = "none"
    /\ goodCount = 0
    /\ dp = <<>>
    /\ icpCalls = <<>>
    /\ posePubMsgs = <<>>
    /\ pathPubMsgs = <<>>
    /\ brMsgs = <<>>
    /\ outcomes = <<>>
    /\ diagnostics = <<>>
    /\ imageRatio = <<>>
    /\ fillWrites = <<>>
    /\ deltas = <<>>
    /\ queue = <<>>
    /\ nArrived = 0
    /\ lost = {}

\* a warm-up test that drops one frame too many
ShouldDrop_Late(dc, sdc) == dc <= sdc

\* a warm-up test that stops one frame early
ShouldDrop_Early(dc, sdc) == dc + 1 < sdc

\* if (dropCount < startupDropCount)
ShouldDrop(dc, sdc) == dc < sdc

\* a delta pose block that resets the tracker on every call
ResetNeeded_EveryCall(sendDelta, icpWasSuccess) == sendDelta

\* a reset on every failure, whatever the delta pose setting
ResetNeeded_AnyMode(sendDelta, icpWasSuccess) == ~icpWasSuccess

\* the failure branch of the delta pose block runs icp.resetTracking(dp)
ResetNeeded(sendDelta, icpWasSuccess) == sendDelta /\ ~icpWasSuccess

\* a path event on every call that went through icp
PathEventDue_Always(s) == TRUE

\* a path event test with the flag negated
PathEventDue_Negated(s) == ~keyFrameCreatedAtLastCall(s)

\* if (icp.keyFrameCreatedAtLastCall())
PathEventDue(s) == keyFrameCreatedAtLastCall(s)

\* a broadcast that reads the delta transform instead of the transform
GlobalTransform_Delta(s) == getDeltaTransform(s)

\* const TP globalTransform(icp.getTransform()), read after the delta block
GlobalTransform(s) == getTransform(s)

\* an empty cloud branch that publishes without testing the setting
EmptyCloudPoses_Unguarded(sendDelta, stamp) == <<SentinelPose(stamp)>>

\* the empty cloud branch: if (sendDeltaPoseMessage) posePub.publish(pose)
EmptyCloudPoses(sendDelta, stamp) ==
    IF sendDelta THEN <<SentinelPose(stamp)>> ELSE <<>>

\* a path that keeps only the newest pose
push_back_Replacing(poses, pose) == <<pose>>

\* path.poses.push_back(pose)
push_back(poses, pose) == Append(poses, pose)

\* CloudMatcher::gotCloud(cloudMsg); res is what the registration reports
\* should it be run against a key frame
GotCloud(cloudMsg, res) ==
    /\ nFrames < MaxFrames
    /\ nFrames' = nFrames + 1
    /\ frame' = cloudMsg
    /\ UNCHANGED <<sendDeltaPoseMessage, startupDropCount>>
    /\ IF ShouldDrop(dropCount, startupDropCount)
       THEN /\ dropCount' = dropCount + 1
            /\ outcome' = "drop"
            /\ goodCount' = 0
            /\ dp' = <<>>
            /\ icpCalls' = <<>>
            /\ posePubMsgs' = <<>>
            /\ pathPubMsgs' = <<>>
            /\ brMsgs' = <<>>
            /\ diagnostics' = <<>>
            /\ imageRatio' = <<>>
            /\ fillWrites' = <<>>
            /\ UNCHANGED <<icp, path, deltas>>
       ELSE LET cloud == cloudMsg.points
                gc    == GoodCount(cloud)
            IN  IF gc = 0
                THEN /\ outcome' = "empty"
                     /\ goodCount' = gc
                     /\ dp' = <<>>
                     /\ icpCalls' = <<>>
                     /\ posePubMsgs' = EmptyCloudPoses(sendDeltaPoseMessage, cloudMsg.stamp)
                     /\ pathPubMsgs' = <<>>
                     /\ brMsgs' = <<>>
                     /\ diagnostics' = <<"I found no good points in the cloud">>
                     /\ imageRatio' = <<>>
                     /\ fillWrites' = <<>>
                     /\ UNCHANGED <<dropCount, icp, path, deltas>>
                ELSE LET writes        == FillLoop(cloud, 0)
                         features      == FillFeatures(cloud)
                         ratio         == ImageRatio(gc, Len(cloud))
                         partial       == IF PartialImage(gc)
                                          THEN <<"Partial image!">> ELSE <<>>
                     IN
                     IF PartialImageReturns(gc)
                     THEN /\ outcome' = "partial"
                          /\ goodCount' = gc
                          /\ dp' = features
                          /\ icpCalls' = <<>>
                          /\ posePubMsgs' = <<>>
                          /\ pathPubMsgs' = <<>>
                          /\ brMsgs' = <<>>
                          /\ diagnostics' = partial
                          /\ imageRatio' = ratio
                          /\ fillWrites' = [k \in 1..Len(writes) |-> writes[k].dIndex]
                          /\ UNCHANGED <<dropCount, icp, path, deltas>>
                     ELSE
                     LET m             == Match(icp, features, res)
                         icpWasSuccess == m.ok
                         dTransform    == getDeltaTransform(m.icp)
                         reset         == ResetNeeded(sendDeltaPoseMessage, icpWasSuccess)
                         icp2          == IF reset THEN ResetTracking(m.icp, features)
                                                   ELSE m.icp
                         globalTransform == GlobalTransform(icp2)
                         keyFrame      == PathEventDue(icp2)
                         path2         == IF keyFrame
                                          THEN push_back(path, PathPose(globalTransform))
                                          ELSE path
                     IN  /\ outcome' = IF icpWasSuccess THEN "success" ELSE "failure"
                         /\ goodCount' = gc
                         /\ dp' = features
                         /\ imageRatio' = ratio
                         /\ fillWrites' = [k \in 1..Len(writes) |-> writes[k].dIndex]
                         /\ diagnostics' =
                                partial
                                \o (IF icpWasSuccess THEN <<>>
                                    ELSE <<"ICP failed to converge">>)
                                \o (IF reset
                                    THEN <<"ICP failure in sendDeltaPose mode, resetting tracker">>
                                    ELSE <<>>)
                                \o (IF keyFrame THEN <<"Keyframe created">> ELSE <<>>)
                         /\ icpCalls' = <<[op |-> "match", dp |-> features]>>
                                \o (IF reset
                                    THEN <<[op |-> "resetTracking", dp |-> features]>>
                                    ELSE <<>>)
                         /\ posePubMsgs' =
                                IF sendDeltaPoseMessage
                                THEN <<DeltaPose(icpWasSuccess, dTransform, cloudMsg.stamp)>>
                                ELSE <<>>
                         /\ icp' = icp2
                         /\ path' = path2
                         /\ pathPubMsgs' = IF keyFrame THEN <<path2>> ELSE <<>>
                         /\ brMsgs' = <<StampedTransform(globalTransform, cloudMsg.stamp)>>
                         /\ deltas' = IF icpWasSuccess THEN Append(deltas, dTransform)
                                                        ELSE deltas
                         /\ UNCHANGED dropCount
    /\ outcomes' = Append(outcomes, outcome')

\* ros::spin(): the next message of the subscription is delivered
Next ==
    /\ \E points \in FrameClouds, res \in RegResults :
           GotCloud([points |-> points, stamp |-> nFrames + 1], res)
    /\ UNCHANGED <<queue, nArrived, lost>>

Spec == Init /\ [][Next]_vars

\* one message, with every cloud of at most MaxPoints points, to a node that
\* drops nothing at startup
FilterInit == Init /\ startupDropCount = 0

FilterNext ==
    /\ nFrames = 0
    /\ \E points \in Clouds(MaxPoints), res \in RegResults :
           GotCloud([points |-> points, stamp |-> nFrames + 1], res)
    /\ UNCHANGED <<queue, nArrived, lost>>

FilterSpec == FilterInit /\ [][FilterNext]_vars

\* the queue length given to n.subscribe(cloudTopic, 1, ...)
QueueSize == 1

\* a subscription made with the queue length of the delta pose publisher
Enqueue_Size3(q, msg) ==
    IF Len(q) >= 3
    THEN [queue |-> Append(Tail(q), msg), discarded |-> {Head(q).stamp}]
    ELSE [queue |-> Append(q, msg), discarded |-> {}]

\* the subscription queue takes a message: when QueueSize messages wait,
\* the oldest is discarded
Enqueue(q, msg) ==
    IF Len(q) >= QueueSize
    THEN [queue |-> Append(Tail(q), msg), discarded |-> {Head(q).stamp}]
    ELSE [queue |-> Append(q, msg), discarded |-> {}]

\* a message of the sensor reaches the subscription
Arrive(points) ==
    /\ nArrived < MaxFrames
    /\ nArrived' = nArrived + 1
    /\ LET e == Enqueue(queue, [points |-> points, stamp |-> nArrived + 1])
       IN  /\ queue' = e.queue
           /\ lost' = lost \cup e.discarded
    /\ UNCHANGED <<sendDeltaPoseMessage, startupDropCount, dropCount, icp, path,
                   nFrames, frame, outcome, goodCount, dp, icpCalls, posePubMsgs,
                   pathPubMsgs, brMsgs, outcomes, diagnostics, imageRatio,
                   fillWrites, deltas>>

\* ros::spin() takes the oldest waiting message and calls gotCloud with it
Deliver(res) ==
    /\ queue # <<>>
    /\ GotCloud(Head(queue), res)
    /\ queue' = Tail(queue)
    /\ UNCHANGED <<nArrived, lost>>

QueueNext ==
    \/ \E points \in FrameClouds : Arrive(points)
    \/ \E res \in RegResults : Deliver(res)

\* the node with its subscription queue
QueueSpec == Init /\ [][QueueNext]_vars

\* ----------------------------------------------------------------- claims
\* the words of the claims
IsFinite(f) == f[1] = "fin"
ValidPoint(p) == IsFinite(p.x) /\ IsFinite(p.y) /\ IsFinite(p.z)
HasValidPoint(points) == \E i \in 1..Len(points) : ValidPoint(points[i])
NumValid(points) == Cardinality({i \in 1..Len(points) : ValidPoint(points[i])})
IsSentinel(m) ==
    /\ \A i \in 1..3 : isnan(m.position[i])
    /\ \A i \in 1..4 : isnan(m.orientation[i])
Carries(m, T) ==
    /\ m.position = Translation(T)
    /\ m.orientation = Quaternion(T)
\* the call about to be made is past the warm-up
PastWarmUp == nFrames >= startupDropCount
Registered == {"success", "failure"}

\* C1: each of the first startupDropCount calls publishes no delta pose, no
\* path and no transform and makes no call on icp, whatever the cloud is;
\* the call after them is the first one that is not dropped: it is filtered,
\* and matched when it has a valid point.
C1_WarmUp ==
    [][ /\ ~PastWarmUp =>
            /\ outcome' = "drop"
            /\ posePubMsgs' = <<>> /\ pathPubMsgs' = <<>> /\ brMsgs' = <<>>
            /\ icpCalls' = <<>> /\ icp' = icp /\ path' = path
        /\ PastWarmUp =>
            /\ outcome' # "drop"
            /\ HasValidPoint(frame'.points) =>
                 /\ outcome' \in Registered
                 /\ icpCalls'[1] = [op |-> "match", dp |-> dp']
      ]_vars

\* the last warm-up call of a node with startupDropCount = 2 and delta pose
\* output, given an all-NaN cloud
C1_Witness ==
    /\ startupDropCount = 2 /\ nFrames = 2 /\ sendDeltaPoseMessage
    /\ frame.points = <<Point(quiet_NaN, quiet_NaN, quiet_NaN)>>
    /\ outcome = "drop" /\ posePubMsgs = <<>>

\* C2: a call past the warm-up whose cloud has a valid point sends exactly
\* one transform: fixedFrame, sensorFrame, the transform of icp after the
\* call and the stamp of the cloud; converged or not, delta pose or not.
C2_Broadcast ==
    [][ (PastWarmUp /\ HasValidPoint(frame'.points)) =>
            /\ Len(brMsgs') = 1
            /\ brMsgs'[1].frame_id = "/world"
            /\ brMsgs'[1].child_frame_id = "/openni_rgb_optical_frame"
            /\ brMsgs'[1].stamp = frame'.stamp
            /\ brMsgs'[1].origin = Translation(icp'.transform)
            /\ brMsgs'[1].rotation = Quaternion(icp'.transform)
      ]_vars

\* a failed registration without delta pose output, after the track moved
C2_Witness ==
    /\ outcome = "failure" /\ ~sendDeltaPoseMessage
    /\ HasValidPoint(frame.points)
    /\ icp.transform # Identity
    /\ Len(brMsgs) = 1

\* C3: a call in which the registration raises ConvergenceError leaves the
\* transform of icp as it was before the call, and the one transform it
\* sends carries that value, also when resetTracking ran first.
C3_FailureKeepsTransform ==
    [][ outcome' = "failure" =>
            /\ icp'.transform = icp.transform
            /\ Len(brMsgs') = 1
            /\ brMsgs'[1].origin = Translation(icp.transform)
            /\ brMsgs'[1].rotation = Quaternion(icp.transform)
      ]_vars

\* a failure with delta pose output: resetTracking ran before the broadcast,
\* and the transform differs from the last delta
C3_Witness ==
    /\ outcome = "failure" /\ sendDeltaPoseMessage
    /\ Len(icpCalls) = 2 /\ icpCalls[2].op = "resetTracking"
    /\ icp.transform # Identity
    /\ icp.transform # icp.deltaTransform
    /\ Len(brMsgs) = 1

\* C4 as stated: every call in which the registration fails runs
\* resetTracking with the features of the cloud, so that the key frame is
\* those features afterwards, whatever the delta pose setting.
C4_ResetOnEveryFailure ==
    [][ outcome' = "failure" =>
            /\ icpCalls' = <<[op |-> "match", dp |-> dp'],
                             [op |-> "resetTracking", dp |-> dp']>>
            /\ icp'.keyFrameCloud = dp'
      ]_vars

\* C4 amended: with delta pose output a failed call runs resetTracking with
\* the features of the cloud and the key frame is those features afterwards;
\* without it a failed call runs no resetTracking and keeps the key frame.
C4_ResetOnFailureInDeltaMode ==
    [][ outcome' = "failure" =>
            IF sendDeltaPoseMessage
            THEN /\ icpCalls' = <<[op |-> "match", dp |-> dp'],
                                  [op |-> "resetTracking", dp |-> dp']>>
                 /\ icp'.keyFrameCloud = dp'
            ELSE /\ icpCalls' = <<[op |-> "match", dp |-> dp']>>
                 /\ icp'.keyFrameCloud = icp.keyFrameCloud
      ]_vars

\* a failure with delta pose output on a cloud that differs from the
\* bootstrap key frame: the key frame is now that cloud
C4_Witness ==
    /\ outcomes = <<"success", "failure">> /\ sendDeltaPoseMessage
    /\ frame.points = <<Point(Fin(2), Fin(2), Fin(2))>>
    /\ icpCalls[2] = [op |-> "resetTracking", dp |-> dp]
    /\ icp.keyFrameCloud = <<Column(Point(Fin(2), Fin(2), Fin(2)))>>

\* C5: with delta pose output, a failed call publishes one pose whose seven
\* fields are NaN, stamped with the stamp of the cloud; a converged call
\* publishes one pose that carries the translation and the rotation of the
\* delta transform, stamped alike, none of its fields a NaN.
C5_DeltaPose ==
    sendDeltaPoseMessage =>
        /\ outcome = "failure" =>
            /\ Len(posePubMsgs) = 1
            /\ IsSentinel(posePubMsgs[1])
            /\ posePubMsgs[1].stamp = frame.stamp
        /\ outcome = "success" =>
            /\ Len(posePubMsgs) = 1
            /\ Carries(posePubMsgs[1], icp.deltaTransform)
            /\ posePubMsgs[1].stamp = frame.stamp
            /\ \A i \in 1..3 : ~isnan(posePubMsgs[1].position[i])
            /\ \A i \in 1..4 : ~isnan(posePubMsgs[1].orientation[i])

\* a failed call with delta pose output, after a converged one
C5_Witness ==
    /\ sendDeltaPoseMessage
    /\ Len(outcomes) >= 3
    /\ outcomes[Len(outcomes) - 1] = "success"
    /\ outcome = "failure"
    /\ posePubMsgs = <<SentinelPose(frame.stamp)>>

\* C6 as stated: a call past the warm-up whose cloud has no valid point makes
\* no call on icp and, with delta pose output, publishes exactly one pose,
\* every field a NaN, stamped with the stamp of the cloud; each such call,
\* however many were made before.
C6_EmptyInput ==
    [][ (PastWarmUp /\ ~HasValidPoint(frame'.points)) =>
            /\ icpCalls' = <<>>
            /\ sendDeltaPoseMessage =>
                 /\ Len(posePubMsgs') = 1
                 /\ IsSentinel(posePubMsgs'[1])
                 /\ posePubMsgs'[1].stamp = frame'.stamp
      ]_vars

\* C7 as stated: a call past the warm-up whose cloud has no valid point
\* sends no transform and publishes no path, and leaves the key frame, the
\* transform, the path and dropCount as they were; without delta pose output
\* it publishes nothing.
C7_EmptyInputNoEffect ==
    [][ (PastWarmUp /\ ~HasValidPoint(frame'.points)) =>
            /\ brMsgs' = <<>> /\ pathPubMsgs' = <<>>
            /\ icp' = icp /\ path' = path /\ dropCount' = dropCount
            /\ ~sendDeltaPoseMessage => posePubMsgs' = <<>>
      ]_vars

\* C8: in a call that went through icp, a pose carrying the transform of icp
\* is appended to the path and the path is published exactly when icp
\* reports keyFrameCreatedAtLastCall; otherwise the path is left alone and
\* nothing is published on it; calls that are dropped or find no good point
\* publish no path.
C8_KeyframeEvent ==
    [][ /\ icpCalls' # <<>> =>
            /\ icp'.keyFrameCreated =>
                 /\ Len(path') = Len(path) + 1
                 /\ SubSeq(path', 1, Len(path)) = path
                 /\ Carries(path'[Len(path')], icp'.transform)
                 /\ pathPubMsgs' = <<path'>>
            /\ ~icp'.keyFrameCreated =>
                 /\ path' = path
                 /\ pathPubMsgs' = <<>>
        /\ icpCalls' = <<>> => (pathPubMsgs' = <<>> /\ path' = path)
      ]_vars

\* a converged call that created no key frame, after two that did
C8_Witness ==
    /\ outcome = "success" /\ ~icp.keyFrameCreated
    /\ Len(path) = 2 /\ pathPubMsgs = <<>>
    /\ Len(outcomes) = 3

\* C9 as stated: the features built from a cloud have as many columns as the
\* cloud has points with x, y and z all finite, and the cloud is treated as
\* empty exactly when it has no such point.
C9_FilterCount ==
    outcome # "none" =>
        /\ Len(dp) = NumValid(frame.points)
        /\ (outcome = "empty") <=> (NumValid(frame.points) = 0)

\* the message delivery of ros::spin() under weak fairness: a message that
\* can be delivered is delivered
LiveSpec == Spec /\ WF_vars(Next)

\* C10: every call returns in exactly one of four ways: dropped in warm-up
\* (the calls before startupDropCount were made), skipped as empty (past the
\* warm-up, no call on icp), converged or failed (match was called); and
\* whatever the calls before were, a call past the warm-up whose cloud has a
\* valid point is matched and sends a transform; no call keeps the next
\* message from being handled.
C10_TrackerStaysLive ==
    /\ [][ /\ outcome' \in {"drop", "empty", "success", "failure"}
           /\ (outcome' = "drop") <=> ~PastWarmUp
           /\ (outcome' = "empty") <=> (PastWarmUp /\ icpCalls' = <<>>)
           /\ (outcome' \in Registered) <=>
                 (icpCalls' # <<>> /\ icpCalls'[1].op = "match")
           /\ (PastWarmUp /\ HasValidPoint(frame'.points)) =>
                 /\ outcome' \in Registered
                 /\ Len(brMsgs') = 1
         ]_vars
    /\ <>(nFrames = MaxFrames)

\* a converged call right after a failed and an empty one
C10_Witness ==
    /\ outcomes = <<"success", "failure", "empty", "success">>
    /\ HasValidPoint(frame.points)
    /\ Len(brMsgs) = 1

NumCalls(calls, op) == Cardinality({i \in 1..Len(calls) : calls[i].op = op})

\* C11: a call past the warm-up whose cloud has a valid point calls match
\* exactly once, on the features of that cloud; no call calls match twice,
\* failed or not; a goodCount under the partial image threshold of 10000
\* adds the "Partial image!" diagnostic and the match is still made.
C11_MatchOnce ==
    [][ /\ NumCalls(icpCalls', "match") <= 1
        /\ (PastWarmUp /\ HasValidPoint(frame'.points)) =>
              /\ NumCalls(icpCalls', "match") = 1
              /\ icpCalls'[1] = [op |-> "match", dp |-> dp']
              /\ goodCount' < 10000 =>
                    /\ diagnostics'[1] = "Partial image!"
                    /\ outcome' \in Registered
      ]_vars

\* a failed call on a cloud of one good point: the diagnostic, one match
C11_Witness ==
    /\ outcome = "failure"
    /\ goodCount = 1
    /\ diagnostics[1] = "Partial image!"
    /\ NumCalls(icpCalls, "match") = 1

\* C12: without delta pose output no call publishes on posePub; with it,
\* each call past the warm-up publishes exactly one pose, the NaN sentinel
\* or the delta transform, and each warm-up call publishes none.
C12_DeltaPoseOnlyIfEnabled ==
    [][ /\ ~sendDeltaPoseMessage => posePubMsgs' = <<>>
        /\ (sendDeltaPoseMessage /\ ~PastWarmUp) => posePubMsgs' = <<>>
        /\ (sendDeltaPoseMessage /\ PastWarmUp) =>
              /\ Len(posePubMsgs') = 1
              /\ \/ IsSentinel(posePubMsgs'[1])
                 \/ Carries(posePubMsgs'[1], icp'.deltaTransform)
      ]_vars

\* an empty cloud past the warm-up, without delta pose output, after calls
\* that were dropped and matched
C12_Witness ==
    /\ ~sendDeltaPoseMessage
    /\ outcomes = <<"drop", "success", "failure", "empty">>
    /\ posePubMsgs = <<>>

\* C13 as stated: the pose appended to the path by a call is stamped with
\* the stamp of the cloud of that call, as the transform and the delta pose
\* of the call are.
C13_PathPoseStamped ==
    pathPubMsgs # <<>> =>
        /\ path[Len(path)].stamp = frame.stamp
        /\ path[Len(path)].stamp = brMsgs[1].stamp
        /\ posePubMsgs # <<>> => path[Len(path)].stamp = posePubMsgs[1].stamp

\* C14: a call in which the registration fails publishes no path and leaves
\* the path as it was, while it still sends one transform and, with delta
\* pose output, publishes the NaN sentinel; after an empty call, a bootstrap
\* call and a failed call the path holds exactly the pose of the second.
C14_SilentReset ==
    [][ outcome' = "failure" =>
            /\ pathPubMsgs' = <<>>
            /\ path' = path
            /\ Len(brMsgs') = 1
            /\ sendDeltaPoseMessage =>
                  (Len(posePubMsgs') = 1 /\ IsSentinel(posePubMsgs'[1]))
            /\ outcomes' = <<"empty", "success", "failure">> =>
                  (Len(path') = 1 /\ Carries(path'[1], Identity))
      ]_vars

\* the third call of the scenario, with delta pose output: resetTracking ran
\* and the path still holds one pose
C14_Witness ==
    /\ outcomes = <<"empty", "success", "failure">>
    /\ sendDeltaPoseMessage
    /\ NumCalls(icpCalls, "resetTracking") = 1
    /\ Len(path) = 1 /\ pathPubMsgs = <<>>
    /\ Len(brMsgs) = 1

\* the deltas composed in call order, starting from the identity
RECURSIVE ComposeAll(_)
ComposeAll(ds) ==
    IF ds = <<>> THEN Identity
    ELSE Compose(ComposeAll(SubSeq(ds, 1, Len(ds) - 1)), ds[Len(ds)])

\* C15: a call in which the registration converges with delta D while the
\* transform was T0 leaves the transform T0 composed with D and sends that
\* transform; from the identity the transform sent is D; at any time the
\* transform is the composition, in call order, of the deltas of all
\* converged calls.
C15_SuccessComposition ==
    /\ [][ outcome' = "success" =>
              LET D == deltas'[Len(deltas')] IN
              /\ deltas' = Append(deltas, D)
              /\ icp'.deltaTransform = D
              /\ icp'.transform = Compose(icp.transform, D)
              /\ Len(brMsgs') = 1
              /\ brMsgs'[1].origin = Translation(Compose(icp.transform, D))
              /\ brMsgs'[1].rotation = Quaternion(Compose(icp.transform, D))
              /\ icp.transform = Identity =>
                    /\ brMsgs'[1].origin = Translation(D)
                    /\ brMsgs'[1].rotation = Quaternion(D)
         ]_vars
    /\ [](icp.transform = ComposeAll(deltas))

\* three converged calls whose deltas do not commute: a half turn with a
\* step, then a step
C15_Witness ==
    /\ outcome = "success"
    /\ deltas = <<Identity, [rot |-> 1, tr |-> <<1, 0, 0>>],
                  [rot |-> 0, tr |-> <<1, 0, 0>>]>>
    /\ icp.transform = [rot |-> 1, tr |-> <<0, 0, 0>>]
    /\ brMsgs[1].origin = <<Fin(0), Fin(0), Fin(0)>>

EventsCarry(stamp) ==
    /\ \A i \in 1..Len(posePubMsgs) : posePubMsgs[i].stamp = stamp
    /\ \A i \in 1..Len(brMsgs) : brMsgs[i].stamp = stamp

C17_DropCount ==
    /\ [](dropCount \in 0..startupDropCount)
    /\ [][ /\ ~PastWarmUp => dropCount' = dropCount + 1
           /\ PastWarmUp => dropCount' = dropCount
           /\ dropCount = startupDropCount =>
                 (dropCount' = startupDropCount /\ outcome' # "drop")
         ]_vars

\* two dropped calls, then a converged and a failed call with a tracker
\* reset: the counter is still startupDropCount
C17_Witness ==
    /\ startupDropCount = 2 /\ dropCount = 2
    /\ outcomes = <<"drop", "drop", "success", "failure">>
    /\ NumCalls(icpCalls, "resetTracking") = 1

\* C18: resetTracking is called only in a call in which match raised
\* ConvergenceError and with delta pose output, once, right after the match
\* and with the features of that call; a converged, an empty or a dropped
\* call never calls it.
C18_ResetOnlyOnFailure ==
    /\ NumCalls(icpCalls, "resetTracking") <= 1
    /\ NumCalls(icpCalls, "resetTracking") = 1 =>
          /\ outcome = "failure"
          /\ sendDeltaPoseMessage
          /\ icpCalls = <<[op |-> "match", dp |-> dp],
                          [op |-> "resetTracking", dp |-> dp]>>
          /\ dp = FillFeatures(frame.points)
    /\ outcome \in {"success", "empty", "drop"} =>
          NumCalls(icpCalls, "resetTracking") = 0

\* a failed call with delta pose output on a cloud of a NaN point and a
\* good one: resetTracking was called after the match with the one column
C18_Witness ==
    /\ sendDeltaPoseMessage
    /\ outcome = "failure"
    /\ Len(frame.points) = 2
    /\ icpCalls = <<[op |-> "match", dp |-> dp],
                    [op |-> "resetTracking", dp |-> dp]>>
    /\ dp = <<Column(Point(Fin(1), Fin(1), Fin(1)))>>
    /\ icp.keyFrameCloud = dp

\* C19: over any step the path keeps every pose it had, in place, and gains
\* at most one pose at its end; it gains one only in a call that called
\* match; what is published on pathPub is the whole path as it is after
\* the push.
C19_PathAppendOnly ==
    [][ /\ Len(path') >= Len(path)
        /\ Len(path') <= Len(path) + 1
        /\ SubSeq(path', 1, Len(path)) = path
        /\ path' # path =>
              (nFrames' = nFrames + 1 /\ NumCalls(icpCalls', "match") = 1)
        /\ (nFrames' = nFrames + 1 /\ pathPubMsgs' # <<>>) =>
              (pathPubMsgs' = <<path'>> /\ Len(path') = Len(path) + 1)
      ]_vars

\* the third key frame: a path of three poses, the last two different, just
\* published whole
C19_Witness ==
    /\ Len(path) = 3
    /\ path[2] # path[3]
    /\ pathPubMsgs = <<path>>

\* the test the two loops apply, in the words of the claim: x is not a NaN
Accepted(p) == ~isnan(p.x)

\* C20: when the features are built, the fill loop makes exactly goodCount
\* column writes, at dIndex 0, 1, ..., goodCount - 1, the k-th of them
\* holding x, y, z of the k-th accepted point of the cloud and a 1 in the
\* fourth row; imageRatio is computed only then, as goodCount over the
\* number of points, with 1 <= goodCount <= number of points.
C20_FillAndRatio ==
    /\ outcome \in Registered =>
          LET accepted == SelectSeq(frame.points, Accepted) IN
          /\ goodCount >= 1
          /\ fillWrites = [k \in 1..goodCount |-> k - 1]
          /\ \A k \in 1..Len(fillWrites) : fillWrites[k] < goodCount
          /\ Len(dp) = goodCount
          /\ Len(accepted) = goodCount
          /\ \A k \in 1..goodCount :
                dp[k] = <<accepted[k].x, accepted[k].y, accepted[k].z, Fin(1)>>
          /\ imageRatio = <<goodCount, Len(frame.points)>>
    /\ outcome \notin Registered => (imageRatio = <<>> /\ fillWrites = <<>>)
    /\ imageRatio # <<>> =>
          /\ imageRatio[2] # 0
          /\ 1 <= imageRatio[1] /\ imageRatio[1] <= imageRatio[2]

\* a cloud of an all-NaN point and a point with a finite x: one column, at
\* dIndex 0, and a ratio of one half
C20_Witness ==
    /\ Len(frame.points) = 2
    /\ isnan(frame.points[1].x)
    /\ frame.points[2] = Point(Fin(1), Infinity, quiet_NaN)
    /\ goodCount = 1
    /\ fillWrites = <<0>>
    /\ dp = <<<<Fin(1), Infinity, quiet_NaN, Fin(1)>>>>
    /\ imageRatio = <<1, 2>>

====
